---- MODULE Spec2Model ----
(***************************************************************************)
(* Model of the MarkVault static-site build script, src/build.js.          *)
(*                                                                         *)
(* Text is modelled as a sequence of tokens.  File names are sequences     *)
(* over NameTokens, where ".md" is the four-character string the code      *)
(* tests with endsWith and removes with replace; no other token contains   *)
(* a "." so an occurrence of ".md" in a name is exactly an occurrence of   *)
(* the token.  File contents are sequences over TextTokens:                *)
(*    "D"  the delimiter text "---\n"                                      *)
(*    "T"  a line of plain text, "Hi\n"                                    *)
(*    "M"  a line holding a YAML mapping entry, "title: Hello\n"           *)
(*    "X"  a line that is not valid YAML, "{\n"                            *)
(* A URL path or a file-system path is a sequence of segments, each a      *)
(* sequence of tokens; the empty segment is the empty string between two   *)
(* slashes.                                                                *)
(***************************************************************************)
EXTENDS Integers, Sequences, FiniteSets, TLC

VARIABLES
    site,      \* the input tree: site/content/posts, site/content/pages, site/index.html
    pc,        \* position of the running build()
    posts,     \* const posts   (build.js:20)
    pages,     \* const pages   (build.js:21)
    routes,    \* const routes  (build.js:24)
    idx,       \* position of the for..of loop over routes (build.js:42)
    docs,      \* files under docs/, by normalised path
    dirs,      \* directories under docs/, by normalised path
    now,       \* the clock read by new Date() (build.js:112)
    exitCode,  \* exit status of the process: 0 unless process.exit(1) was called
    run,       \* number of build() processes started so far
    listing,   \* the orders fs.readdir returned to this build: [posts, pages]
    extra,     \* what the finalization wrote: copied content, sitemap.xml, robots.txt, .nojekyll
    error,     \* the error build() caught (build.js:62) and the step that threw it
    prev,      \* what the previous build left behind, and the listing orders it saw
    arg,       \* argument of the function under test (function specifications)
    res        \* its result

vars == <<site, pc, posts, pages, routes, idx, docs, dirs, now, exitCode, run, listing, extra,
          error, prev, arg, res>>

-----------------------------------------------------------------------------
(* Bounds *)

MaxFiles == 2      \* files in site/content/posts
MaxRuns == 2       \* builds run in succession
MaxNameLen == 3    \* tokens in a file name (function specifications)
MaxTextLen == 4    \* tokens in a file text (function specifications)

NameTokens == {"a", "x", ".md", ".txt"}
TextTokens == {"D", "T", "M", "X"}

RECURSIVE SeqsUpTo(_, _)
SeqsUpTo(S, n) ==
    IF n = 0 THEN {<< >>}
    ELSE LET shorter == SeqsUpTo(S, n - 1)
         IN  shorter \cup {Append(s, t) : s \in {u \in shorter : Len(u) = n - 1}, t \in S}

-----------------------------------------------------------------------------
(* String helpers, on token sequences *)

\* Mutant of EndsWithMd: the suffix filter of build.js:73 left out
AnyEntry(file) == Len(file) >= 1

\* String.prototype.endsWith(".md")
EndsWithMd(file) == Len(file) >= 1 /\ file[Len(file)] = ".md"

\* index of the first occurrence of tok in s, 0 when there is none
RECURSIVE IndexOf(_, _, _)
IndexOf(s, tok, from) ==
    IF from > Len(s) THEN 0
    ELSE IF s[from] = tok THEN from
    ELSE IndexOf(s, tok, from + 1)

\* String.prototype.replace(".md", ""): a string pattern replaces the FIRST occurrence only
ReplaceFirstMd(file) ==
    LET i == IndexOf(file, ".md", 1)
    IN  IF i = 0 THEN file
        ELSE SubSeq(file, 1, i - 1) \o SubSeq(file, i + 1, Len(file))

\* content.split("---\n"): the pieces between the occurrences of the delimiter text
RECURSIVE Split(_)
Split(content) ==
    LET i == IndexOf(content, "D", 1)
    IN  IF i = 0 THEN <<content>>
        ELSE <<SubSeq(content, 1, i - 1)>> \o Split(SubSeq(content, i + 1, Len(content)))

\* parts.join("---\n")
RECURSIVE Join(_)
Join(parts) ==
    IF Len(parts) = 0 THEN << >>
    ELSE IF Len(parts) = 1 THEN parts[1]
    ELSE parts[1] \o <<"D">> \o Join(Tail(parts))

-----------------------------------------------------------------------------
(* Collaborators: js-yaml and marked *)

EmptyMap == [kind |-> "map", title |-> "UNDEF"]        \* {}
Undefined == [kind |-> "undefined", title |-> "UNDEF"] \* the JavaScript value undefined
Scalar == [kind |-> "scalar", title |-> "UNDEF"]       \* a string; its .title reads undefined
HelloMap == [kind |-> "map", title |-> "Hello"]        \* {title: "Hello"}

\* yaml.load(text): undefined for an empty document, a string for plain text,
\* a mapping for a mapping entry, and a YAMLException for anything else.
YamlLoad(text) ==
    IF text = << >> THEN [ok |-> TRUE, value |-> Undefined]
    ELSE IF \A i \in 1..Len(text) : text[i] = "T" THEN [ok |-> TRUE, value |-> Scalar]
    ELSE IF text = <<"M">> THEN [ok |-> TRUE, value |-> HelloMap]
    ELSE [ok |-> FALSE, value |-> Undefined]

\* marked(markdown): the HTML of the Markdown text
Marked(markdown) == <<"html">> \o markdown

-----------------------------------------------------------------------------
(* parseMarkdown, build.js:87-96 *)

\* the result when the text has a block: ok = FALSE when yaml.load threw, and
\* parseMarkdown with it (build.js:93-95)
ParsedBlock(y, markdown) == [ok |-> y.ok, metadata |-> y.value, content |-> markdown]

\* build.js:89-95, parts being content.split("---\n")
ParseParts(content, parts) ==
    IF Len(parts) < 3
    THEN [ok |-> TRUE, metadata |-> EmptyMap, content |-> content]
    ELSE ParsedBlock(YamlLoad(parts[2]), Join(SubSeq(parts, 3, Len(parts))))

parseMarkdown(content) == ParseParts(content, Split(content))

-----------------------------------------------------------------------------
(* readContent, build.js:68-85 *)

\* A directory: exists = FALSE when the path is absent; files maps each entry's
\* name to [readable, text].
NoFiles == [n \in {} |-> [readable |-> TRUE, text |-> << >>]]
MissingDir == [exists |-> FALSE, files |-> NoFiles]

\* the orders fs.readdir may return the entries of a directory in
Listings(dir) ==
    LET names == DOMAIN dir.files
        n == Cardinality(names)
    IN  {l \in [1..n -> names] : \A i, j \in 1..n : l[i] = l[j] => i = j}

\* slug: file.replace(".md", "")   (build.js:77)
Slug(file) == ReplaceFirstMd(file)

\* build.js:75-80: the item of a file whose text parsed to p, or the parse error
EntryOf(file, p) ==
    IF ~p.ok
    THEN [skip |-> FALSE, ok |-> FALSE, error |-> "YAMLException", item |-> << >>]
    ELSE [skip |-> FALSE, ok |-> TRUE, error |-> "none",
          item |-> <<[slug |-> Slug(file), metadata |-> p.metadata,
                      content |-> Marked(p.content)]>>]

\* build.js:73-81, one turn of the loop: f is the file behind the entry
ReadEntry(file, f) ==
    IF ~EndsWithMd(file)
    THEN [skip |-> TRUE, ok |-> TRUE, error |-> "none", item |-> << >>]
    ELSE IF ~f.readable
    THEN [skip |-> FALSE, ok |-> FALSE, error |-> "EACCES", item |-> << >>]
    ELSE EntryOf(file, parseMarkdown(f.text))

\* the loop of build.js:72-82 over the files, from entry i on
RECURSIVE ReadFiles(_, _, _, _)
RECURSIVE ReadNext(_, _, _, _, _)
ReadNext(dir, files, i, content, e) ==
    IF ~e.ok THEN [ok |-> FALSE, error |-> e.error, items |-> << >>]
    ELSE ReadFiles(dir, files, i + 1, content \o e.item)

ReadFiles(dir, files, i, content) ==
    IF i > Len(files) THEN [ok |-> TRUE, error |-> "none", items |-> content]
    ELSE ReadNext(dir, files, i, content, ReadEntry(files[i], dir.files[files[i]]))

readContent(dir, files) ==
    IF ~dir.exists THEN [ok |-> FALSE, error |-> "ENOENT", items |-> << >>]
    ELSE ReadFiles(dir, files, 1, << >>)

-----------------------------------------------------------------------------
(* The route list, build.js:24-34 *)

NoData == [slug |-> << >>, metadata |-> Undefined, content |-> << >>]

StaticRoutes ==
    << [path |-> << >>, template |-> "home", title |-> <<"MarkVault - Home">>,
        hasData |-> FALSE, data |-> NoData],
       [path |-> << <<"posts">> >>, template |-> "posts", title |-> <<"All Posts - MarkVault">>,
        hasData |-> FALSE, data |-> NoData],
       [path |-> << <<"about">> >>, template |-> "about", title |-> <<"About - MarkVault">>,
        hasData |-> FALSE, data |-> NoData] >>

\* `${post.metadata.title} - MarkVault`: an absent property reads undefined and is
\* written "undefined"
PostTitle(post) ==
    <<IF post.metadata.title = "UNDEF" THEN "undefined" ELSE post.metadata.title,
      " - MarkVault">>

PostRoute(post) ==
    [path |-> << <<"posts">>, post.slug >>, template |-> "post", title |-> PostTitle(post),
     hasData |-> TRUE, data |-> post]

\* posts.map(...) reads post.metadata.title of every post: a TypeError when the
\* metadata of one is undefined
BuildRoutes(ps) ==
    IF \E i \in 1..Len(ps) : ps[i].metadata.kind = "undefined"
    THEN [ok |-> FALSE, error |-> "TypeError", routes |-> << >>]
    ELSE [ok |-> TRUE, error |-> "none",
          routes |-> StaticRoutes \o [i \in 1..Len(ps) |-> PostRoute(ps[i])]]

-----------------------------------------------------------------------------
(* renderTemplate, build.js:151-285 *)

OwnTemplates == {"home", "posts", "about", "post"}

\* properties every object literal inherits from Object.prototype
InheritedFunctions == {"constructor", "toString"}
InheritedObjects == {"__proto__"}

Fragment(kind, text) == [kind |-> kind, text |-> text]

Returned(fragment) == [threw |-> FALSE, value |-> fragment]
Threw == [threw |-> TRUE, value |-> Fragment("none", << >>)]

\* build.js:193-223: the fragment of the about page; reading aboutPage.metadata.title
\* is a TypeError when the metadata is undefined
AboutFragment(aboutPage) ==
    IF aboutPage.metadata.kind = "undefined" THEN Threw
    ELSE Returned(Fragment("about",
             <<IF aboutPage.metadata.title = "UNDEF" THEN "About"
               ELSE aboutPage.metadata.title>> \o aboutPage.content))

\* the try/catch of build.js:183 and 224-227 around what the component computes
AboutCatch(r) == IF r.threw THEN Returned(Fragment("aboutError", << >>)) ELSE r

\* aboutContent.find((page) => page.slug === "about"): the first such item
AboutPages(items) == SelectSeq(items, LAMBDA page : page.slug = <<"about">>)

\* Mutant of AboutFound: neither the check of aboutPage nor the try/catch, so that
\* a missing about page rejects the promise
AboutFoundUnguarded(found) ==
    IF found = << >> THEN Threw ELSE AboutFragment(found[1])

\* build.js:186-223, found being the items with the slug 'about'
AboutFound(found) ==
    IF found = << >> THEN Returned(Fragment("aboutNotFound", << >>))
    ELSE AboutCatch(AboutFragment(found[1]))

\* build.js:185-227, r being what readContent("site/content/pages") gave
AboutRead(r) ==
    IF ~r.ok THEN Returned(Fragment("aboutError", << >>))
    ELSE AboutFound(AboutPages(r.items))

\* components.about, build.js:182-228; files is what its own readdir returns
AboutComponent(pagesDir, files) == AboutRead(readContent(pagesDir, files))

\* components.post, build.js:230-260: the TypeError of reading data.metadata.title
\* when the metadata is undefined is thrown to renderTemplate
PostComponent(hasData, data) ==
    IF ~hasData THEN Returned(Fragment("postNotFound", << >>))
    ELSE IF data.metadata.kind = "undefined" THEN Threw
    ELSE Returned(Fragment("post",
                      <<IF data.metadata.title = "UNDEF" THEN "Untitled"
                        ELSE data.metadata.title>> \o data.content))

\* components[template], build.js:264 and 275: a property lookup, which also finds
\* what the object inherits
Lookup(template) ==
    IF template \in OwnTemplates THEN "own"
    ELSE IF template \in InheritedFunctions THEN "inheritedFunction"
    ELSE IF template \in InheritedObjects THEN "inheritedObject"
    ELSE "undefined"

\* components[template](data), build.js:275
CallComponent(template, hasData, data, pagesDir, files) ==
    IF Lookup(template) = "inheritedObject" THEN Threw   \* not a function
    ELSE IF template = "toString" THEN Returned(Fragment("string", <<"[object Object]">>))
    ELSE IF Lookup(template) = "inheritedFunction" THEN Returned(Fragment("object", << >>))
    ELSE IF template = "home" THEN Returned(Fragment("home", << >>))
    ELSE IF template = "posts" THEN Returned(Fragment("posts", << >>))
    ELSE IF template = "about" THEN AboutComponent(pagesDir, files)
    ELSE PostComponent(hasData, data)

\* The try/catch of build.js:274-284 catches what the call throws; the promise of
\* the about component is returned without await, so its rejection would pass.
CatchSync(template, r) ==
    IF r.threw /\ template # "about"
    THEN Returned(Fragment("renderFailed", << >>))
    ELSE r

renderTemplate(template, hasData, data, pagesDir, files) ==
    IF Lookup(template) = "undefined"
    THEN Returned(Fragment("templateNotFound", <<template>>))
    ELSE CatchSync(template, CallComponent(template, hasData, data, pagesDir, files))

-----------------------------------------------------------------------------
(* generateHTML and updateMetaTags, build.js:98-149 *)

BaseDocs == {"ok", "noRoot", "missing"}

\* the tags updateMetaTags appends; no content item of the model has a description
MetaTags(route) ==
    [description |-> "MarkVault - Preserving digital content for generations",
     ogTitle |-> route.title,
     ogDescription |-> "MarkVault - A modern markdown-powered platform",
     ogUrl |-> <<"https://univault-org.github.io/MarkVault">> \o route.path]

\* Mutant of Assemble: the build time written into the page content as well
AssembleStamped(route, base, clock, content) ==
    IF base = "missing" THEN [ok |-> FALSE, error |-> "ENOENT"]
    ELSE IF content.threw THEN [ok |-> FALSE, error |-> "RenderError"]
    ELSE IF base = "noRoot" THEN [ok |-> FALSE, error |-> "TypeError"]
    ELSE [ok |-> TRUE, error |-> "none",
          html |-> [title |-> route.title,
                    meta |-> MetaTags(route),
                    root |-> [kind |-> content.value.kind, text |-> content.value.text,
                              stamp |-> clock],
                    buildVersion |-> clock]]

\* build.js:99-122, content being what renderTemplate gave: fs.readFile fails when
\* site/index.html is absent; a rejected renderTemplate is rethrown by await;
\* getElementById("root") is null when the base document has no such element, and
\* setting innerHTML on it is a TypeError.
Assemble(route, base, clock, content) ==
    IF base = "missing" THEN [ok |-> FALSE, error |-> "ENOENT"]
    ELSE IF content.threw THEN [ok |-> FALSE, error |-> "RenderError"]
    ELSE IF base = "noRoot" THEN [ok |-> FALSE, error |-> "TypeError"]
    ELSE [ok |-> TRUE, error |-> "none",
          html |-> [title |-> route.title,
                    meta |-> MetaTags(route),
                    root |-> content.value,
                    buildVersion |-> clock]]

generateHTML(route, base, pagesDir, files, clock) ==
    Assemble(route, base, clock,
             renderTemplate(route.template, route.hasData, route.data, pagesDir, files))

-----------------------------------------------------------------------------
(* Output paths, build.js:44-50 *)

IndexHtml == <<"index.html">>

\* path.join and path.dirname drop the empty segments of a path
Normalize(path) == SelectSeq(path, LAMBDA seg : seg # << >>)

\* path.dirname(fileName) under docs: the directory of the route
OutDir(route) == Normalize(route.path)

\* path.join("docs", fileName), fileName being `${route.path}/index.html`
OutFile(route) == Append(Normalize(route.path), IndexHtml)

\* the directory and its ancestors, which mkdir {recursive: true} creates
Ancestors(dir) == {SubSeq(dir, 1, n) : n \in 0..Len(dir)}

-----------------------------------------------------------------------------
(* The input trees of the build specifications *)

AboutMd == <<"about", ".md">>
BuildPostNames == {<<"a", ".md">>, <<"x", ".md">>, <<".md">>, <<"a", ".txt">>}
BuildTexts == {<<"T">>, <<"D", "M", "D", "T">>, <<"D", "D", "T">>, <<"D", "T", "D", "T">>,
               <<"D", "X", "D", "T">>}
PageTexts == {<<"D", "M", "D", "T">>, <<"D", "D", "T">>}

Unreadable == [readable |-> FALSE, text |-> << >>]
Readable(text) == [readable |-> TRUE, text |-> text]

\* an entry that is no Markdown file is never read: one content stands for all
ValuesFor(name, texts) ==
    IF EndsWithMd(name) THEN {Unreadable} \cup {Readable(t) : t \in texts}
    ELSE {Readable(<<"T">>)}

Dirs(names, texts, max) ==
    {MissingDir} \cup
    UNION {{[exists |-> TRUE, files |-> f] :
                f \in {g \in [S -> {Unreadable} \cup {Readable(t) : t \in texts \cup {<<"T">>}}] :
                          \A n \in S : g[n] \in ValuesFor(n, texts)}} :
           S \in {T \in SUBSET names : Cardinality(T) <= max}}

Sites ==
    [posts : Dirs(BuildPostNames, BuildTexts, MaxFiles),
     pages : Dirs({AboutMd}, PageTexts, 1),
     base : BaseDocs]

-----------------------------------------------------------------------------
(* build(), build.js:9-66 *)

NoExtra == [written |-> FALSE, content |-> [posts |-> MissingDir, pages |-> MissingDir],
            sitemap |-> << >>, robots |-> FALSE, nojekyll |-> FALSE]
NoDocs == [p \in {} |-> 0]
NoError == [kind |-> "none", at |-> "none"]
NoListing == [posts |-> << >>, pages |-> << >>]
NoPrev == [docs |-> NoDocs, dirs |-> {}, extra |-> NoExtra, listing |-> NoListing,
           exitCode |-> 0]

FunctionIdle == arg = << >> /\ res = << >>

BuildIdle ==
    /\ posts = << >> /\ pages = << >> /\ routes = << >>
    /\ idx = 1
    /\ docs = NoDocs /\ dirs = {}
    /\ now = 0
    /\ exitCode = 0
    /\ run = 0
    /\ listing = NoListing
    /\ extra = NoExtra
    /\ error = NoError
    /\ prev = NoPrev

Init == site \in Sites /\ pc = "idle" /\ BuildIdle /\ FunctionIdle

\* Mutant of Catch: the catch block removes what the build has written so far
CatchRollback(kind, at) ==
    /\ pc' = "failed"
    /\ exitCode' = 1
    /\ error' = [kind |-> kind, at |-> at]
    /\ docs' = NoDocs
    /\ UNCHANGED <<dirs, extra>>

\* catch (error) { console.error(...); process.exit(1) }, build.js:62-65:
\* what is on disk stays as it is
Catch(kind, at) ==
    /\ pc' = "failed"
    /\ exitCode' = 1
    /\ error' = [kind |-> kind, at |-> at]
    /\ UNCHANGED <<docs, dirs, extra>>

\* a build process starts: fs.rm("docs") and fs.mkdir("docs"), build.js:15-16
Start ==
    /\ pc \in {"idle", "done", "failed"}
    /\ run < MaxRuns
    /\ run' = run + 1
    /\ prev' = IF run = 0 THEN prev
               ELSE [docs |-> docs, dirs |-> dirs, extra |-> extra, listing |-> listing,
                     exitCode |-> exitCode]
    /\ docs' = NoDocs /\ dirs' = {<< >>} /\ extra' = NoExtra
    /\ posts' = << >> /\ pages' = << >> /\ routes' = << >> /\ idx' = 1
    /\ listing' = NoListing
    /\ error' = NoError
    /\ exitCode' = 0
    /\ pc' = "readPosts"
    /\ UNCHANGED <<site, now, arg, res>>

\* const posts = await readContent("site/content/posts"), build.js:20
PostsRead(r) ==
    IF r.ok
    THEN /\ posts' = r.items
         /\ pc' = "readPages"
         /\ UNCHANGED <<exitCode, error, docs, dirs, extra>>
    ELSE /\ Catch(r.error, "readPosts")
         /\ UNCHANGED posts

ReadPosts ==
    /\ pc = "readPosts"
    /\ \E l \in Listings(site.posts) :
         /\ listing' = [listing EXCEPT !.posts = l]
         /\ PostsRead(readContent(site.posts, l))
    /\ UNCHANGED <<site, pages, routes, idx, now, run, prev, arg, res>>

\* const pages = await readContent("site/content/pages"), build.js:21
PagesRead(r) ==
    IF r.ok
    THEN /\ pages' = r.items
         /\ pc' = "routes"
         /\ UNCHANGED <<exitCode, error, docs, dirs, extra>>
    ELSE /\ Catch(r.error, "readPages")
         /\ UNCHANGED pages

ReadPages ==
    /\ pc = "readPages"
    /\ \E l \in Listings(site.pages) :
         /\ listing' = [listing EXCEPT !.pages = l]
         /\ PagesRead(readContent(site.pages, l))
    /\ UNCHANGED <<site, posts, routes, idx, now, run, prev, arg, res>>

\* const routes = [...], build.js:24-34
RoutesMade(r) ==
    IF r.ok
    THEN /\ routes' = r.routes
         /\ pc' = "loop"
         /\ UNCHANGED <<exitCode, error, docs, dirs, extra>>
    ELSE /\ Catch(r.error, "routes")
         /\ UNCHANGED routes

MakeRoutes ==
    /\ pc = "routes"
    /\ RoutesMade(BuildRoutes(posts))
    /\ UNCHANGED <<site, posts, pages, idx, now, run, listing, prev, arg, res>>

\* build.js:44-50: mkdir of the route's directory and writeFile of its page, g
\* being what generateHTML gave for the route
WritePage(dir, file, g) ==
    IF ~g.ok
    THEN /\ Catch(g.error, "generateHTML")
         /\ UNCHANGED idx
    ELSE IF \E d \in Ancestors(dir) : d \in DOMAIN docs
    THEN /\ Catch("EEXIST", "mkdir")
         /\ UNCHANGED idx
    ELSE IF file \in dirs
    THEN /\ pc' = "failed" /\ exitCode' = 1
         /\ error' = [kind |-> "EISDIR", at |-> "writeFile"]
         /\ dirs' = dirs \cup Ancestors(dir)
         /\ UNCHANGED <<docs, extra, idx>>
    ELSE /\ dirs' = dirs \cup Ancestors(dir)
         /\ docs' = [p \in DOMAIN docs \cup {file} |-> IF p = file THEN g.html ELSE docs[p]]
         /\ idx' = idx + 1
         /\ UNCHANGED <<pc, exitCode, error, extra>>

\* one turn of the loop build.js:42-51: generateHTML, mkdir, writeFile
GenerateRoute ==
    /\ pc = "loop"
    /\ idx <= Len(routes)
    /\ \E l \in Listings(site.pages) :
         WritePage(OutDir(routes[idx]), OutFile(routes[idx]),
                   generateHTML(routes[idx], site.base, site.pages, l, now))
    /\ now' = now + 1
    /\ UNCHANGED <<site, posts, pages, routes, run, listing, prev, arg, res>>

\* generateSitemap, build.js:287-303: one <loc> per route, in route order
generateSitemap(rs) ==
    [i \in 1..Len(rs) |-> <<"https://univault-org.github.io/MarkVault">> \o rs[i].path]

\* copyAssets, generateSitemap, generateRobotsTxt, .nojekyll: build.js:53-61.
\* site/assets/images is absent in the model, which copyAssets only warns about.
Finalize ==
    /\ pc = "loop"
    /\ idx > Len(routes)
    /\ dirs' = dirs \cup {<< <<"content">> >>, << <<"assets">> >>,
                          << <<"assets">>, <<"images">> >>}
    /\ extra' = [written |-> TRUE,
                 content |-> [posts |-> site.posts, pages |-> site.pages],
                 sitemap |-> generateSitemap(routes),
                 robots |-> TRUE, nojekyll |-> TRUE]
    /\ pc' = "done"
    /\ UNCHANGED <<site, posts, pages, routes, idx, docs, now, exitCode, run, listing, error,
                   prev, arg, res>>

Next == Start \/ ReadPosts \/ ReadPages \/ MakeRoutes \/ GenerateRoute \/ Finalize

Spec == Init /\ [][Next]_vars

-----------------------------------------------------------------------------
(* The build while another process removes site/index.html or rewrites it      *)
(* without the root element; generateHTML reads the file again for every      *)
(* route (build.js:99)                                                        *)

EditBase ==
    /\ pc = "loop"
    /\ site.base = "ok"
    /\ \E b \in BaseDocs \ {"ok"} : site' = [site EXCEPT !.base = b]
    /\ UNCHANGED <<pc, posts, pages, routes, idx, docs, dirs, now, exitCode, run, listing,
                   extra, error, prev, arg, res>>

NextEnv == Next \/ EditBase

SpecEnv == Init /\ [][NextEnv]_vars

-----------------------------------------------------------------------------
(* The functions on their own: each specification draws an argument in its    *)
(* initial state and applies the function to it                               *)

SomeSite == [posts |-> MissingDir, pages |-> MissingDir, base |-> "ok"]

Return(value) ==
    /\ pc = "call"
    /\ res' = value
    /\ pc' = "returned"
    /\ UNCHANGED <<site, posts, pages, routes, idx, docs, dirs, now, exitCode, run, listing,
                   extra, error, prev, arg>>

\* parseMarkdown(arg)
InitParse ==
    /\ site = SomeSite /\ pc = "call" /\ BuildIdle
    /\ arg \in SeqsUpTo(TextTokens, MaxTextLen)
    /\ res = << >>

CallParse == Return(parseMarkdown(arg))

ParseSpec == InitParse /\ [][CallParse]_vars

\* readContent(dir), the directory listing returning arg.files
FileNames == SeqsUpTo(NameTokens, MaxNameLen) \ {<< >>}

InjectiveSeqs(S, n) ==
    {l \in SeqsUpTo(S, n) : \A i, j \in 1..Len(l) : l[i] = l[j] => i = j}

InitRead ==
    /\ site = SomeSite /\ pc = "call" /\ BuildIdle
    /\ \E l \in InjectiveSeqs(FileNames, MaxFiles) :
         arg = [dir |-> [exists |-> TRUE,
                         files |-> [n \in {l[i] : i \in 1..Len(l)} |->
                                       Readable(<<"D", "M", "D", "T">>)]],
                files |-> l]
    /\ res = << >>

CallRead == Return(readContent(arg.dir, arg.files))

ReadSpec == InitRead /\ [][CallRead]_vars

\* renderTemplate(arg.template, arg.data), site/content/pages being site.pages
RenderTemplates == OwnTemplates \cup InheritedFunctions \cup InheritedObjects \cup {"missing"}

Item(text) ==
    [slug |-> <<"a">>, metadata |-> parseMarkdown(text).metadata,
     content |-> Marked(parseMarkdown(text).content)]

InitRender ==
    /\ pc = "call" /\ BuildIdle
    /\ \E pagesDir \in Dirs({AboutMd}, PageTexts, 1) :
         site = [posts |-> MissingDir, pages |-> pagesDir, base |-> "ok"]
    /\ \E t \in RenderTemplates :
         \/ arg = [template |-> t, hasData |-> FALSE, data |-> NoData]
         \/ \E text \in {x \in BuildTexts : parseMarkdown(x).ok} :
              arg = [template |-> t, hasData |-> TRUE, data |-> Item(text)]
    /\ res = << >>

CallRender ==
    \E l \in Listings(site.pages) :
        Return(renderTemplate(arg.template, arg.hasData, arg.data, site.pages, l))

RenderSpec == InitRender /\ [][CallRender]_vars

-----------------------------------------------------------------------------
(* Properties *)

Url(path) == <<"https://univault-org.github.io/MarkVault">> \o path

\* html is the document generated for route
IsDocumentOf(html, route) == html.title = route.title /\ html.meta.ogUrl = Url(route.path)

\* the step build.js:24-34 has been taken by the running build
RoutesStepTaken ==
    \/ pc \in {"loop", "done"}
    \/ pc = "failed" /\ error.at \in {"routes", "generateHTML", "mkdir", "writeFile"}

\* C1: for every list of posts readContent returned, the route list is the three
\* static routes '/', '/posts', '/about' followed by one route per post, in order,
\* with path '/posts/<slug>', template 'post', the post's title and the post as data.
\* Violated: a post whose front-matter block is empty has undefined metadata, the
\* route expression throws and no route list is built.
C1_OneRoutePerPost ==
    RoutesStepTaken =>
        /\ Len(routes) = 3 + Len(posts)
        /\ routes[1].path = << >> /\ routes[1].template = "home"
        /\ routes[2].path = << <<"posts">> >> /\ routes[2].template = "posts"
        /\ routes[3].path = << <<"about">> >> /\ routes[3].template = "about"
        /\ \A i \in 1..Len(posts) :
             /\ routes[3 + i].path = << <<"posts">>, posts[i].slug >>
             /\ routes[3 + i].template = "post"
             /\ routes[3 + i].title[2] = " - MarkVault"
             /\ posts[i].metadata.title # "UNDEF" =>
                    routes[3 + i].title[1] = posts[i].metadata.title
             /\ routes[3 + i].hasData /\ routes[3 + i].data = posts[i]

\* no file of site/content/pages yields the slug 'about'
AboutMissing ==
    \A n \in DOMAIN site.pages.files : ~(n[Len(n)] = ".md" /\ Slug(n) = <<"about">>)

\* the recoverable page errors of a route
RecoverableError(route) ==
    \/ route.template \notin {"home", "posts", "about", "post"}
    \/ route.template = "post" /\ ~route.hasData
    \/ route.template = "about" /\ AboutMissing

FallbackKinds == {"templateNotFound", "postNotFound", "aboutNotFound"}

C2_PageStep ==
    (/\ pc = "loop" /\ idx <= Len(routes)
     /\ RecoverableError(routes[idx])
     /\ site.base = "ok")
    => /\ pc' = "loop" /\ idx' = idx + 1 /\ exitCode' = 0
       /\ OutFile(routes[idx]) \in DOMAIN docs'
       /\ IsDocumentOf(docs'[OutFile(routes[idx])], routes[idx])
       /\ docs'[OutFile(routes[idx])].root.kind \in FallbackKinds

C2_Outcome ==
    /\ exitCode = 1 /\ error.at = "generateHTML" => site.base # "ok"
    /\ pc = "done" =>
         /\ exitCode = 0
         /\ idx = Len(routes) + 1
         /\ \A i \in 1..Len(routes) : OutFile(routes[i]) \in DOMAIN docs
         /\ extra.written /\ extra.robots /\ extra.nojekyll
         /\ Len(extra.sitemap) = Len(routes)

C3_FatalErrorStopsBuild ==
    exitCode = 1 =>
        /\ pc = "failed"
        /\ error.kind # "none"
        /\ extra = NoExtra
        /\ DOMAIN docs = {OutFile(routes[i]) : i \in 1..(idx - 1)}
        /\ \A i \in 1..(idx - 1) :
             \E k \in i..(idx - 1) :
                 /\ OutFile(routes[k]) = OutFile(routes[i])
                 /\ IsDocumentOf(docs[OutFile(routes[i])], routes[k])
        /\ \A j \in idx..Len(routes) :
             \A p \in DOMAIN docs : ~IsDocumentOf(docs[p], routes[j])

\* the base document went bad in the middle of the loop, after two pages were written
C3_Witness ==
    /\ exitCode = 1 /\ error.at = "generateHTML"
    /\ idx = 3 /\ Len(routes) > 3
    /\ Cardinality(DOMAIN docs) = 2

\* the posts directory exists and holds no Markdown file
ZeroPostFiles ==
    /\ site.posts.exists
    /\ \A n \in DOMAIN site.posts.files : n[Len(n)] # ".md"

RoutePaths == [i \in 1..Len(routes) |-> routes[i].path]

StaticPaths == << << >>, << <<"posts">> >>, << <<"about">> >> >>

\* C4 as stated: given zero post files the routes are exactly '/', '/posts',
\* '/about' and the directory docs/posts/ is not created.
\* Violated: the static route '/posts' is written to docs/posts/index.html.
C4_NoPostsDirectory ==
    ZeroPostFiles /\ RoutesStepTaken =>
        /\ RoutePaths = StaticPaths
        /\ << <<"posts">> >> \notin dirs

\* C4 as amended: given zero post files the routes are exactly '/', '/posts',
\* '/about', and docs/posts/ holds nothing but the index.html of the '/posts'
\* route: no directory of a post is created below it.
C4_OnlyStaticRoutes ==
    ZeroPostFiles /\ RoutesStepTaken =>
        /\ RoutePaths = StaticPaths
        /\ \A d \in dirs : ~(Len(d) >= 2 /\ d[1] = <<"posts">>)
        /\ \A p \in DOMAIN docs :
               (Len(p) >= 1 /\ p[1] = <<"posts">>) => p = << <<"posts">>, IndexHtml >>

\* a build of a site whose posts directory holds only a non-Markdown entry ended
C4_Witness ==
    /\ ZeroPostFiles /\ pc = "done"
    /\ DOMAIN site.posts.files # {}
    /\ << <<"posts">> >> \in dirs
    /\ << <<"posts">>, IndexHtml >> \in DOMAIN docs

\* C7: after a build that completes, every route has an index.html at the path
\* mirroring its URL path, holding the document generated for that route, and
\* sitemap.xml lists the URL of every route.
\* Violated: the post file '.md' has the empty slug, its route '/posts/' is written
\* to docs/posts/index.html and replaces the page of the route '/posts'.
C7_EveryRouteHasItsPage ==
    pc = "done" =>
        /\ \A i \in 1..Len(routes) :
             /\ OutFile(routes[i]) \in DOMAIN docs
             /\ IsDocumentOf(docs[OutFile(routes[i])], routes[i])
        /\ \A i \in 1..Len(routes) :
             \E k \in 1..Len(extra.sitemap) : extra.sitemap[k] = Url(routes[i].path)

\* the document without the build time of its script tag
Strip(html) == [html EXCEPT !.buildVersion = 0]

\* the output directory is what the previous build left, but for the build times
SameOutput ==
    /\ dirs = prev.dirs
    /\ extra = prev.extra
    /\ DOMAIN docs = DOMAIN prev.docs
    /\ \A p \in DOMAIN docs : Strip(docs[p]) = Strip(prev.docs[p])

BuildEnded == pc \in {"done", "failed"}

\* C8 as stated: two builds in succession on unchanged input leave the same output
\* but for the build times, whatever order the directory listing returns.
\* Violated: with two posts listed in another order the second time, the routes and
\* with them the entries of sitemap.xml come in another order.
C8_SameOutputAnyOrder == run >= 2 /\ BuildEnded => SameOutput

\* C8 as amended: two builds in succession on unchanged input leave the same
\* output but for the build times, when the directory listings return the files
\* in the same order both times.
C8_SameOutputSameOrder == run >= 2 /\ BuildEnded /\ listing = prev.listing => SameOutput

\* a second build of two posts ended, having listed them in the order of the first
C8_Witness ==
    /\ run = 2 /\ pc = "done" /\ prev.exitCode = 0
    /\ listing = prev.listing
    /\ Len(posts) = 2
    /\ \E p \in DOMAIN docs : docs[p].buildVersion # prev.docs[p].buildVersion

\* the posts have been read by the running build
PostsStepTaken ==
    \/ pc \in {"readPages", "routes", "loop", "done"}
    \/ pc = "failed" /\ error.at # "readPosts"

\* C10: every post whose front-matter block the YAML parser accepts has a mapping
\* as metadata, and the route-building step never raises.
\* Violated: an empty block yields undefined and a line of plain text a string;
\* with undefined metadata the route expression throws and the build exits with 1.
C10_MetadataIsMapping ==
    PostsStepTaken =>
        /\ \A i \in 1..Len(posts) : posts[i].metadata.kind = "map"
        /\ error.at # "routes"

-----------------------------------------------------------------------------
(* Properties of the functions *)

\* the text begins with a line of three hyphens that a later such line closes
\* (every token of a text ends its line, so each "D" is a line of its own)
BeginsWithBlock(content) ==
    /\ Len(content) >= 2
    /\ content[1] = "D"
    /\ \E j \in 2..Len(content) : content[j] = "D"

\* the index of the second delimiter line of a text that begins with a block
ClosingLine(content) == CHOOSE j \in 2..Len(content) :
    content[j] = "D" /\ \A k \in 2..(j - 1) : content[k] # "D"

\* C5: a text that does not begin with a delimited block parses to empty metadata
\* and the whole text as body, without raising; a text that does has everything
\* after the second delimiter line as body.
\* Violated: "Hi\n---\ntitle: Hello\n---\n" has two delimiters but does not begin
\* with one, and its second piece is parsed as metadata.
C5_BlockOnlyAtStart ==
    pc = "returned" =>
        IF BeginsWithBlock(arg)
        THEN res.ok => res.content = SubSeq(arg, ClosingLine(arg) + 1, Len(arg))
        ELSE res.ok /\ res.metadata = EmptyMap /\ res.content = arg

\* the entries of the listing whose name ends with '.md'
MarkdownEntries(files) == SelectSeq(files, LAMBDA n : n[Len(n)] = ".md")

\* the name without its final extension
WithoutFinalExtension(file) == SubSeq(file, 1, Len(file) - 1)

\* C9: readContent yields one item per entry ending with '.md', in listing order,
\* its slug the name without the final '.md', and none for any other entry.
\* Violated: '.mdx.md' gets the slug 'x.md', the first '.md' being the one removed.
C9_SlugDropsFinalExtension ==
    pc = "returned" =>
        /\ res.ok
        /\ Len(res.items) = Len(MarkdownEntries(arg.files))
        /\ \A k \in 1..Len(res.items) :
               res.items[k].slug = WithoutFinalExtension(MarkdownEntries(arg.files)[k])

\* C6: for a template name outside 'home', 'posts', 'about', 'post', renderTemplate
\* does not throw and returns the error fragment holding the name.
\* Violated: 'constructor' and 'toString' are found on the prototype and called,
\* and '__proto__' is found and fails to be called.
C6_UnknownTemplateNamed ==
    pc = "returned" /\ arg.template \notin {"home", "posts", "about", "post"} =>
        /\ ~res.threw
        /\ res.value = Fragment("templateNotFound", <<arg.template>>)

====
